---- MODULE Spec2Model ----
(***************************************************************************)
(* ImageWriter.c: a block-level copy through a ring of num_block blocks of *)
(* block_size bytes.  readerThread fills blocks from file_in, writerThread *)
(* drains them to file_out, statusWriter prints the progress counters and  *)
(* main starts the three threads, joins reader and writer and tears down.  *)
(*                                                                         *)
(* Program counters are named after the source line the thread is about to *)
(* execute ("r69" = readerThread at line 69).  A byte of the input file is *)
(* modelled by its 1-based offset, so that a byte that is lost, repeated   *)
(* or moved is visible in file_out.                                        *)
(***************************************************************************)
EXTENDS Integers, Sequences, FiniteSets

\* ---------------------------------------------------------------- bounds
\* -s block_size ranges over 1..MaxBlockSize
MaxBlockSize ==
    2
\* -b num_block ranges over 1..MaxNumBlock
MaxNumBlock ==
    2
\* the input file's length ranges over 0..MaxFileSize
MaxFileSize ==
    2
\* the writer's calls of write() are followed until it has released MaxOverrun
\* blocks more than an error-free copy publishes
MaxOverrun ==
    0
\* at most MaxSpurious returns of pthread_cond_wait without a signal in one run
MaxSpurious ==
    1
\* at most MaxWriteFail calls of write() fail or come back short in one run
MaxWriteFail ==
    1

\* An unsigned int is 32 bits wide.  It is kept as its bit pattern read as a
\* signed number: 0..IntMax stand for themselves and -k stands for 2^32 - k
\* (so -1 is UINT_MAX).
IntMax ==
    2147483647

\* a + 1 on an unsigned int
UInc(a) ==
    IF a = IntMax THEN (-IntMax) - 1 ELSE a + 1

\* a - 1 on an unsigned int: 0 - 1 is UINT_MAX
UDec(a) ==
    IF a = (-IntMax) - 1 THEN IntMax ELSE a - 1

\* a < b on unsigned ints
ULess(a, b) ==
    IF (a < 0) = (b < 0) THEN a < b ELSE b < 0

VARIABLES
    block_size,   \* unsigned int block_size (line 38, set at 149/160)
    num_block,    \* unsigned int num_block (line 38, set at 150/157)
    fsize,        \* td.fsize: length of the input file (line 180)
    rw_mutex,     \* "free", "reader", "writer" or "destroyed"
    numToWrite,   \* td.numToWrite
    blocks,       \* td.blocks: idx -> [size, end]
    buf,          \* td.buf: byte offset -> byte (0: never written)
    file_in,      \* offset of file_in (bytes already read from it)
    file_out,     \* the bytes written to file_out, in order
    read,         \* td.read
    wrote,        \* td.wrote
    rwaits,       \* td.rwaits
    wwaits,       \* td.wwaits
    rpc,          \* readerThread's position
    ridx,         \* readerThread's idx
    rret,         \* readerThread's ret
    wpc,          \* writerThread's position
    widx,         \* writerThread's idx
    wlen,         \* the length argument of the write() of this iteration
    wret,         \* writerThread's ret (0 outside its scope)
    wsnap,        \* the block's bytes when the write() in progress began
    spc,          \* statusWriter's position
    mpc,          \* main's position
    crashed,      \* the process was killed by a fault
    freed,        \* td.blocks and td.buf have been freed
    published,    \* history: the [size, end] of every block the reader published
    released,     \* history: how many blocks the writer released
    rfailed,      \* history: a read() returned -1
    wfails,       \* history: how many write() calls failed or came back short
    spurious      \* history: how many waits returned without a signal

vars ==
    << block_size, num_block, fsize, rw_mutex, numToWrite, blocks, buf, file_in,
       file_out, read, wrote, rwaits, wwaits, rpc, ridx, rret, wpc, widx, wlen,
       wret, wsnap, spc, mpc, crashed, freed, published, released, rfailed, wfails,
       spurious >>

\* what main and statusWriter own
others ==
    << spc, mpc, crashed, freed, spurious >>

\* what only readerThread changes
readerVars ==
    << blocks, buf, file_in, read, rwaits, ridx, rret, published, rfailed >>

\* what only writerThread changes
writerVars ==
    << file_out, wrote, wwaits, widx, wlen, wret, wsnap, released, wfails >>

config ==
    << block_size, num_block, fsize >>

\* ---------------------------------------------------------------- helpers
\* #define next_block_idx(curr_block) (((curr_block) + 1) % num_block)
next_block_idx(curr_block) ==
    (curr_block + 1) % num_block

\* #define buf_idx(idx) ((idx)*(block_size))
buf_idx(idx) ==
    idx * block_size

Min(a, b) ==
    IF a < b THEN a ELSE b

\* the byte of the input file at 0-based offset off
SourceByte(off) ==
    off + 1

\* the whole input file
Source ==
    [i \in 1..fsize |-> SourceByte(i - 1)]

\* what read(file_in, ., block_size) returns when it does not fail: a regular
\* file gives the bytes left, at most block_size, and 0 at its end
ReadCount ==
    Min(block_size, fsize - file_in)

\* the number of blocks an error-free copy publishes: the data blocks and the
\* zero-length block that carries end
NumChunks ==
    (fsize + block_size - 1) \div block_size + 1

\* the iteration (0-based) the writer's loop is in
WriterChunk ==
    IF wpc = "w127" THEN released - 1 ELSE released

\* the writer's calls of write() have been followed as far as the model goes
Capped ==
    wpc = "w117" /\ released >= NumChunks + MaxOverrun

\* a fault kills the whole process: no thread takes another step
Running ==
    ~crashed

\* ---------------------------------------------------------------- Init
\* main, lines 149-215, run with -s bs -b nb on an input file of len bytes:
\* options, fsize, calloc'ed blocks, malloc'ed buf, zeroed counters, mutex and
\* condition variables initialised
Start(bs, nb, len) ==
    /\ block_size = bs
    /\ num_block = nb
    /\ fsize = len
    /\ rw_mutex = "free"
    /\ numToWrite = 0
    /\ blocks = [i \in 0..(num_block - 1) |-> [size |-> 0, end |-> FALSE]]
    /\ buf = [j \in 0..(num_block * block_size - 1) |-> 0]
    /\ file_in = 0
    /\ file_out = << >>
    /\ read = 0
    /\ wrote = 0
    /\ rwaits = 0
    /\ wwaits = 0
    /\ rpc = "idle"
    /\ ridx = 0
    /\ rret = 0
    /\ wpc = "idle"
    /\ widx = 0
    /\ wlen = 0
    /\ wret = 0
    /\ wsnap = << >>
    /\ spc = "idle"
    /\ mpc = "m217"
    /\ crashed = FALSE
    /\ freed = FALSE
    /\ published = << >>
    /\ released = 0
    /\ rfailed = FALSE
    /\ wfails = 0
    /\ spurious = 0

Init ==
    \E bs \in 1..MaxBlockSize, nb \in 1..MaxNumBlock, len \in 0..MaxFileSize :
        Start(bs, nb, len)

\* ---------------------------------------------------------------- readerThread
\* line 69: pthread_mutex_lock
R_Lock ==
    /\ Running /\ rpc = "r69" /\ rw_mutex = "free"
    /\ rw_mutex' = "reader"
    /\ rpc' = "r70"
    /\ UNCHANGED << config, numToWrite, readerVars, wpc, writerVars, others >>

\* the test of line 70
ReaderMustWait ==
    ~ULess(numToWrite, num_block)

\* lines 70-74: if the buffer is full, count the wait and block in
\* pthread_cond_wait, which releases the mutex; otherwise unlock (line 74)
R_Check ==
    /\ Running /\ rpc = "r70" /\ rw_mutex = "reader"
    /\ IF ReaderMustWait
         THEN /\ rwaits' = rwaits + 1
              /\ rpc' = "r72"
         ELSE /\ rpc' = "r76"
              /\ UNCHANGED rwaits
    /\ rw_mutex' = "free"
    /\ UNCHANGED << config, numToWrite, blocks, buf, file_in, read, ridx, rret,
                    published, rfailed, wpc, writerVars, others >>

\* line 72: pthread_cond_wait may return without a signal (POSIX: "spurious
\* wakeups from pthread_cond_wait() may occur")
R_Spurious ==
    /\ Running /\ rpc = "r72"
    /\ spurious < MaxSpurious
    /\ spurious' = spurious + 1
    /\ rpc' = "r72s"
    /\ UNCHANGED << config, rw_mutex, numToWrite, readerVars, wpc, writerVars, spc, mpc,
                    crashed, freed >>

\* line 72: a woken pthread_cond_wait returns once it has the mutex again
R_Wake ==
    /\ Running /\ rpc = "r72s" /\ rw_mutex = "free"
    /\ rw_mutex' = "reader"
    /\ rpc' = "r74"
    /\ UNCHANGED << config, numToWrite, readerVars, wpc, writerVars, others >>

\* line 74: pthread_mutex_unlock
R_Unlock ==
    /\ Running /\ rpc = "r74" /\ rw_mutex = "reader"
    /\ rw_mutex' = "free"
    /\ rpc' = "r76"
    /\ UNCHANGED << config, numToWrite, readerVars, wpc, writerVars, others >>

\* line 76: read() starts; it will fail (-1) or deliver ReadCount bytes
R_ReadBegin ==
    /\ Running /\ rpc = "r76"
    /\ rret' \in {-1, ReadCount}
    /\ rpc' = "r76io"
    /\ UNCHANGED << config, rw_mutex, numToWrite, blocks, buf, file_in, read, rwaits,
                    ridx, published, rfailed, wpc, writerVars, others >>

\* buf after read() has put n bytes of the file at &buf[buf_idx(idx)]
FillBlock(idx, n) ==
    [j \in DOMAIN buf |->
        IF j >= buf_idx(idx) /\ j < buf_idx(idx) + n
          THEN SourceByte(file_in + (j - buf_idx(idx)))
          ELSE buf[j]]

\* lines 76-77: read() returns; the switch selects the case
R_ReadEnd ==
    /\ Running /\ rpc = "r76io"
    /\ IF rret = -1
         THEN /\ rpc' = "r80"
              /\ rfailed' = TRUE
              /\ UNCHANGED << buf, file_in >>
         ELSE /\ buf' = FillBlock(ridx, rret)
              /\ file_in' = file_in + rret
              /\ rpc' = IF rret = 0 THEN "r86" ELSE "r89"
              /\ UNCHANGED rfailed
    /\ UNCHANGED << config, rw_mutex, numToWrite, blocks, read, rwaits, ridx, rret,
                    published, wpc, writerVars, others >>

\* line 80 (case -1): td->blocks[idx].end = true
R_ErrEnd ==
    /\ Running /\ rpc = "r80"
    /\ blocks' = [blocks EXCEPT ![ridx].end = TRUE]
    /\ rpc' = "r81"
    /\ UNCHANGED << config, rw_mutex, numToWrite, buf, file_in, read, rwaits, ridx,
                    rret, published, rfailed, wpc, writerVars, others >>

\* lines 81-82 (case -1): td->blocks[idx].size = 0; pthread_exit
R_ErrExit ==
    /\ Running /\ rpc = "r81"
    /\ blocks' = [blocks EXCEPT ![ridx].size = 0]
    /\ rpc' = "exit"
    /\ UNCHANGED << config, rw_mutex, numToWrite, buf, file_in, read, rwaits, ridx,
                    rret, published, rfailed, wpc, writerVars, others >>

\* line 86 (case 0): td->blocks[idx].end = true, falling through to default
R_SetEnd ==
    /\ Running /\ rpc = "r86"
    /\ blocks' = [blocks EXCEPT ![ridx].end = TRUE]
    /\ rpc' = "r89"
    /\ UNCHANGED << config, rw_mutex, numToWrite, buf, file_in, read, rwaits, ridx,
                    rret, published, rfailed, wpc, writerVars, others >>

\* line 89 with the slip of storing the size asked for instead of ret
R_SetSizeAsked ==
    /\ Running /\ rpc = "r89"
    /\ blocks' = [blocks EXCEPT ![ridx].size = block_size]
    /\ rpc' = "r92"
    /\ UNCHANGED << config, rw_mutex, numToWrite, buf, file_in, read, rwaits, ridx,
                    rret, published, rfailed, wpc, writerVars, others >>

\* line 89 (default): td->blocks[idx].size = ret
R_SetSize ==
    /\ Running /\ rpc = "r89"
    /\ blocks' = [blocks EXCEPT ![ridx].size = rret]
    /\ rpc' = "r92"
    /\ UNCHANGED << config, rw_mutex, numToWrite, buf, file_in, read, rwaits, ridx,
                    rret, published, rfailed, wpc, writerVars, others >>

\* line 92: pthread_mutex_lock
R_Lock2 ==
    /\ Running /\ rpc = "r92" /\ rw_mutex = "free"
    /\ rw_mutex' = "reader"
    /\ rpc' = "r93"
    /\ UNCHANGED << config, numToWrite, readerVars, wpc, writerVars, others >>

\* line 93: td->numToWrite++ on an unsigned int
IncNumToWrite ==
    UInc(numToWrite)

\* lines 93-95: numToWrite++, pthread_cond_signal(&ready_to_write_cv), which
\* wakes the writer if it is blocked at line 113, pthread_mutex_unlock
R_Publish ==
    /\ Running /\ rpc = "r93" /\ rw_mutex = "reader"
    /\ numToWrite' = IncNumToWrite
    /\ wpc' = IF wpc = "w113" THEN "w113s" ELSE wpc
    /\ rw_mutex' = "free"
    /\ published' = Append(published, blocks[ridx])
    /\ rpc' = "r97"
    /\ UNCHANGED << config, blocks, buf, file_in, read, rwaits, ridx, rret, rfailed,
                    writerVars, others >>

\* lines 97-100: if(td->blocks[idx].end) pthread_exit(NULL);
\* td->read += td->blocks[idx].size; idx = next_block_idx(idx)
R_Advance ==
    /\ Running /\ rpc = "r97"
    /\ IF blocks[ridx].end
         THEN /\ rpc' = "exit"
              /\ UNCHANGED << read, ridx >>
         ELSE /\ read' = read + blocks[ridx].size
              /\ ridx' = next_block_idx(ridx)
              /\ rpc' = "r69"
    /\ UNCHANGED << config, rw_mutex, numToWrite, blocks, buf, file_in, rwaits, rret,
                    published, rfailed, wpc, writerVars, others >>

readerThread ==
    \/ R_Lock \/ R_Check \/ R_Spurious \/ R_Wake \/ R_Unlock
    \/ R_ReadBegin \/ R_ReadEnd \/ R_ErrEnd \/ R_ErrExit \/ R_SetEnd \/ R_SetSize
    \/ R_Lock2 \/ R_Publish \/ R_Advance

\* ---------------------------------------------------------------- writerThread
\* line 110: pthread_mutex_lock
W_Lock ==
    /\ Running /\ wpc = "w110" /\ rw_mutex = "free"
    /\ rw_mutex' = "writer"
    /\ wpc' = "w111"
    /\ UNCHANGED << config, numToWrite, readerVars, rpc, writerVars, others >>

\* the test of line 111
WriterMustWait ==
    ULess(numToWrite, 1)

\* lines 111-115 with the pthread_mutex_unlock of line 115 left out
W_CheckNoUnlock ==
    /\ Running /\ wpc = "w111" /\ rw_mutex = "writer"
    /\ IF WriterMustWait
         THEN /\ wwaits' = wwaits + 1
              /\ wpc' = "w113"
              /\ rw_mutex' = "free"
         ELSE /\ wpc' = "w117"
              /\ UNCHANGED << wwaits, rw_mutex >>
    /\ UNCHANGED << config, numToWrite, readerVars, rpc, file_out, wrote, widx, wlen,
                    wret, wsnap, released, wfails, others >>

\* lines 111-115: if there is nothing to write, count the wait and block in
\* pthread_cond_wait, which releases the mutex; otherwise unlock (line 115)
W_Check ==
    /\ Running /\ wpc = "w111" /\ rw_mutex = "writer"
    /\ IF WriterMustWait
         THEN /\ wwaits' = wwaits + 1
              /\ wpc' = "w113"
         ELSE /\ wpc' = "w117"
              /\ UNCHANGED wwaits
    /\ rw_mutex' = "free"
    /\ UNCHANGED << config, numToWrite, readerVars, rpc, file_out, wrote, widx, wlen,
                    wret, wsnap, released, wfails, others >>

\* line 113: pthread_cond_wait may return without a signal
W_Spurious ==
    /\ Running /\ wpc = "w113"
    /\ spurious < MaxSpurious
    /\ spurious' = spurious + 1
    /\ wpc' = "w113s"
    /\ UNCHANGED << config, rw_mutex, numToWrite, readerVars, rpc, writerVars, spc, mpc,
                    crashed, freed >>

\* line 113: a woken pthread_cond_wait returns with the mutex held again
W_Wake ==
    /\ Running /\ wpc = "w113s" /\ rw_mutex = "free"
    /\ rw_mutex' = "writer"
    /\ wpc' = "w115"
    /\ UNCHANGED << config, numToWrite, readerVars, rpc, writerVars, others >>

\* line 115: pthread_mutex_unlock
W_Unlock ==
    /\ Running /\ wpc = "w115" /\ rw_mutex = "writer"
    /\ rw_mutex' = "free"
    /\ wpc' = "w117"
    /\ UNCHANGED << config, numToWrite, readerVars, rpc, writerVars, others >>

\* the block_size bytes at &buf[buf_idx(idx)]
BlockBytes(idx) ==
    [j \in 0..(block_size - 1) |-> buf[buf_idx(idx) + j]]

\* line 117: write() starts; its length argument td->blocks[idx].size is
\* evaluated at the call
W_WriteBegin ==
    /\ Running /\ wpc = "w117"
    /\ ~Capped
    /\ wlen' = blocks[widx].size
    /\ wsnap' = BlockBytes(widx)
    /\ wpc' = "w117io"
    /\ UNCHANGED << config, rw_mutex, numToWrite, readerVars, rpc, file_out, wrote,
                    wwaits, widx, wret, released, wfails, others >>

\* The values write() can take from byte j of the block while it runs: what
\* was there when it began, what is there when it ends and, if a read() into
\* the same block is in progress, what that read() is putting there (racing
\* accesses: each byte is any of them).
PossibleByte(j) ==
    {wsnap[j], buf[buf_idx(widx) + j]}
      \cup (IF rpc = "r76io" /\ ridx = widx /\ j < rret
              THEN {SourceByte(file_in + j)} ELSE {})

\* the byte sequences a write() of wlen bytes of the block can put out
PossibleData ==
    {d \in [1..wlen -> 0..fsize] : \A j \in 1..wlen : d[j] \in PossibleByte(j - 1)}

\* the results write() can have: all wlen bytes, or (while the model allows
\* another failure) -1 or fewer bytes than asked
WriteResults ==
    {wlen} \cup (IF wfails < MaxWriteFail THEN (-1)..(wlen - 1) ELSE {})

\* line 117: write() returns ret, having put out the first ret bytes
W_WriteEnd ==
    /\ Running /\ wpc = "w117io"
    /\ \E d \in PossibleData, ret \in WriteResults :
          /\ wret' = ret
          /\ file_out' = file_out \o SubSeq(d, 1, ret)
          /\ wfails' = IF ret # wlen THEN wfails + 1 ELSE wfails
    /\ wsnap' = << >>
    /\ wpc' = "w121"
    /\ UNCHANGED << config, rw_mutex, numToWrite, readerVars, rpc, wrote, wwaits,
                    widx, wlen, released, others >>

\* line 121 with the test of the end flag left out: the writer goes on to
\* release the block it has just written
W_TestEndSkipped ==
    /\ Running /\ wpc = "w121"
    /\ wpc' = "w123"
    /\ UNCHANGED << config, rw_mutex, numToWrite, readerVars, rpc, writerVars, others >>

\* lines 118-121: the two reports change nothing;
\* if(td->blocks[idx].end) pthread_exit(NULL)
W_TestEnd ==
    /\ Running /\ wpc = "w121"
    /\ wpc' = IF blocks[widx].end THEN "exit" ELSE "w123"
    /\ UNCHANGED << config, rw_mutex, numToWrite, readerVars, rpc, writerVars, others >>

\* line 123: pthread_mutex_lock
W_Lock2 ==
    /\ Running /\ wpc = "w123" /\ rw_mutex = "free"
    /\ rw_mutex' = "writer"
    /\ wpc' = "w124"
    /\ UNCHANGED << config, numToWrite, readerVars, rpc, writerVars, others >>

\* line 124: td->numToWrite-- on an unsigned int
DecNumToWrite ==
    UDec(numToWrite)

\* lines 124-126: numToWrite--, pthread_cond_signal(&ready_to_read_cv), which
\* wakes the reader if it is blocked at line 72, pthread_mutex_unlock
W_Release ==
    /\ Running /\ wpc = "w124" /\ rw_mutex = "writer"
    /\ numToWrite' = DecNumToWrite
    /\ rpc' = IF rpc = "r72" THEN "r72s" ELSE rpc
    /\ rw_mutex' = "free"
    /\ released' = released + 1
    /\ wpc' = "w127"
    /\ UNCHANGED << config, readerVars, file_out, wrote, wwaits, widx, wlen, wret,
                    wsnap, wfails, others >>

\* line 127: the size added to td->wrote is td->blocks[idx].size as it is now
WroteIncrement ==
    blocks[widx].size

\* lines 127-129: td->wrote += td->blocks[idx].size; idx = next_block_idx(idx);
\* the loop body ends, and ret and the length asked for with it
W_Advance ==
    /\ Running /\ wpc = "w127"
    /\ wrote' = wrote + WroteIncrement
    /\ widx' = next_block_idx(widx)
    /\ wlen' = 0
    /\ wret' = 0
    /\ wpc' = "w110"
    /\ UNCHANGED << config, rw_mutex, numToWrite, readerVars, rpc, file_out, wwaits,
                    wsnap, released, wfails, others >>

writerThread ==
    \/ W_Lock \/ W_Check \/ W_Spurious \/ W_Wake \/ W_Unlock
    \/ W_WriteBegin \/ W_WriteEnd \/ W_TestEnd \/ W_Lock2 \/ W_Release \/ W_Advance

\* ---------------------------------------------------------------- statusWriter
threadVars ==
    << rw_mutex, numToWrite, readerVars, rpc, writerVars, wpc >>

\* lines 58-60, one round of the loop: (td->read * 100)/td->fsize and
\* (td->wrote * 100)/td->fsize are printed and the thread sleeps; it writes to
\* no shared variable.  With fsize = 0 the integer division is undefined: the
\* process is killed (SIGFPE) or goes on with some value printed.
S_Print ==
    /\ Running /\ spc = "s58"
    /\ \/ /\ fsize = 0
          /\ crashed' = TRUE
       \/ UNCHANGED crashed
    /\ UNCHANGED << config, threadVars, spc, mpc, freed, spurious >>

statusWriter ==
    S_Print

\* ---------------------------------------------------------------- main
\* line 217: pthread_create(&threads[2], NULL, statusWriter, &td)
M_CreateStatus ==
    /\ Running /\ mpc = "m217"
    /\ spc' = "s58"
    /\ mpc' = "m218"
    /\ UNCHANGED << config, threadVars, crashed, freed, spurious >>

\* line 218: pthread_create(&threads[0], &attr, readerThread, &td)
M_CreateReader ==
    /\ Running /\ mpc = "m218"
    /\ rpc' = "r69"
    /\ mpc' = "m219"
    /\ UNCHANGED << config, rw_mutex, numToWrite, readerVars, writerVars, wpc, spc,
                    crashed, freed, spurious >>

\* line 219: pthread_create(&threads[1], &attr, writerThread, &td)
M_CreateWriter ==
    /\ Running /\ mpc = "m219"
    /\ wpc' = "w110"
    /\ mpc' = "m222"
    /\ UNCHANGED << config, rw_mutex, numToWrite, readerVars, writerVars, rpc, spc,
                    crashed, freed, spurious >>

\* line 222: pthread_join(threads[0], NULL) returns once the reader has exited
M_JoinReader ==
    /\ Running /\ mpc = "m222" /\ rpc = "exit"
    /\ mpc' = "m223"
    /\ UNCHANGED << config, threadVars, spc, crashed, freed, spurious >>

\* line 223 with a join that returns without waiting for the writer
M_JoinWriterNoWait ==
    /\ Running /\ mpc = "m223"
    /\ mpc' = "m225"
    /\ UNCHANGED << config, threadVars, spc, crashed, freed, spurious >>

\* line 223: pthread_join(threads[1], NULL) returns once the writer has exited
M_JoinWriter ==
    /\ Running /\ mpc = "m223" /\ wpc = "exit"
    /\ mpc' = "m225"
    /\ UNCHANGED << config, threadVars, spc, crashed, freed, spurious >>

\* line 225: pthread_cancel(threads[2])
M_Cancel ==
    /\ Running /\ mpc = "m225"
    /\ spc' = "cancelled"
    /\ mpc' = "m230"
    /\ UNCHANGED << config, threadVars, crashed, freed, spurious >>

\* lines 230-232: the condition variables and the mutex are destroyed
M_Destroy ==
    /\ Running /\ mpc = "m230"
    /\ rw_mutex' = "destroyed"
    /\ mpc' = "m234"
    /\ UNCHANGED << config, numToWrite, readerVars, rpc, writerVars, wpc, spc,
                    crashed, freed, spurious >>

\* lines 234-238: the files are closed, blocks and buf freed, main exits
M_Free ==
    /\ Running /\ mpc = "m234"
    /\ freed' = TRUE
    /\ mpc' = "exit"
    /\ UNCHANGED << config, threadVars, spc, crashed, spurious >>

main ==
    \/ M_CreateStatus \/ M_CreateReader \/ M_CreateWriter
    \/ M_JoinReader \/ M_JoinWriter \/ M_Cancel \/ M_Destroy \/ M_Free

\* ---------------------------------------------------------------- the program
Next ==
    readerThread \/ writerThread \/ statusWriter \/ main

Spec ==
    Init /\ [][Next]_vars

\* The steps the scheduler owes each thread: every step but a return of
\* pthread_cond_wait that no signal caused, which nothing guarantees.
readerSteps ==
    \/ R_Lock \/ R_Check \/ R_Wake \/ R_Unlock
    \/ R_ReadBegin \/ R_ReadEnd \/ R_ErrEnd \/ R_ErrExit \/ R_SetEnd \/ R_SetSize
    \/ R_Lock2 \/ R_Publish \/ R_Advance

writerSteps ==
    \/ W_Lock \/ W_Check \/ W_Wake \/ W_Unlock
    \/ W_WriteBegin \/ W_WriteEnd \/ W_TestEnd \/ W_Lock2 \/ W_Release \/ W_Advance

\* the program under a scheduler that lets every thread that can run, run
FairSpec ==
    /\ Init /\ [][Next]_vars
    /\ WF_vars(readerSteps) /\ WF_vars(writerSteps) /\ WF_vars(main)

\* the runs in which every pthread_cond_wait returns because of a signal
SignalledSpec ==
    Init /\ [][Next /\ spurious' = spurious]_vars

\* the end-to-end scenario, one byte standing for 500,000: a file of 3.5
\* blocks copied through a ring of 2 blocks
InitScenario ==
    Start(2, 2, 7)

\* ---------------------------------------------------------------- the scenario
\* a step in which no read() and no write() fails
NoErrorStep ==
    rret' # -1 /\ wfails' = wfails

\* the error-free runs of the end-to-end scenario
ScenarioSpec ==
    InitScenario /\ [][Next /\ NoErrorStep]_vars

\* ---------------------------------------------------------------- properties
NoErrors ==
    ~rfailed /\ wfails = 0

BothExited ==
    rpc = "exit" /\ wpc = "exit"

\* main is past both pthread_join calls
JoinsReturned ==
    mpc \in {"m225", "m230", "m234", "exit"}

\* the reader is inside read(), the writer inside write()
Filling ==
    rpc = "r76io"

Draining ==
    wpc = "w117io"

\* C1: byte fidelity.  In a run without read or write errors, once reader and
\* writer have both exited, the bytes written to file_out are the input
\* file's bytes, in order.
C1_ByteFidelity ==
    (NoErrors /\ BothExited) => file_out = Source

\* C2: counter bound.  In every state numToWrite, as an unsigned number, is at
\* most num_block (it never wraps below 0, never exceeds the capacity).
C2_CounterBound ==
    ~ULess(num_block, numToWrite)

\* C3: conservation.  In a run without read or write errors, once reader and
\* writer have both exited, read = fsize and wrote = fsize.  Stated for the
\* runs in which every wait returned on a signal, where it already fails.
C3_Conservation ==
    (NoErrors /\ spurious = 0 /\ BothExited) => (read = fsize /\ wrote = fsize)

\* C4: injected read failure.  After a read() has failed, the writer
\* eventually exits and main's joins eventually return (the run may also end
\* by the process being killed, or leave the part of it the model follows).
C4_ReadFailureTerminates ==
    rfailed ~> ((wpc = "exit" /\ JoinsReturned) \/ crashed \/ Capped)

\* C5: termination without errors.  Under fair scheduling, unless a read()
\* fails, reader and writer eventually exit and main's joins return.
C5_Termination ==
    <>(rfailed \/ Capped \/ (BothExited /\ JoinsReturned))

\* the input's length is a multiple of block_size, one less or one more
BoundaryLength ==
    fsize % block_size \in {0, 1, block_size - 1}

\* C6: boundary lengths.  For a boundary length, with the three threads
\* started: no thread faults; an error-free run that completes has written
\* the input to file_out and its last published block is zero-length and
\* end-marked; for the empty input exactly one block is published.
C6_BoundaryLengths ==
    BoundaryLength =>
        /\ ~crashed
        /\ (NoErrors /\ BothExited) =>
              /\ file_out = Source
              /\ Len(published) >= 1
              /\ published[Len(published)] = [size |-> 0, end |-> TRUE]
              /\ (fsize = 0 => Len(published) = 1)

\* C7 as stated: the reader publishes exactly 4 blocks, of sizes block_size,
\* block_size, block_size, block_size/2, and the fourth carries end.
C7_FourSlots ==
    rpc = "exit" =>
        /\ Len(published) = 4
        /\ \A i \in 1..3 : published[i] = [size |-> block_size, end |-> FALSE]
        /\ published[4] = [size |-> block_size \div 2, end |-> TRUE]

\* what the code publishes in the scenario: the four data blocks, none of
\* them end-marked, then a zero-length block that carries end
ScenarioBlocks ==
    << [size |-> block_size, end |-> FALSE], [size |-> block_size, end |-> FALSE],
       [size |-> block_size, end |-> FALSE],
       [size |-> block_size \div 2, end |-> FALSE], [size |-> 0, end |-> TRUE] >>

\* C7 amended: at every moment the blocks published so far are the first of
\* ScenarioBlocks, and when the reader has exited they are all five.
C7_FiveSlots ==
    /\ Len(published) <= 5
    /\ \A i \in 1..Len(published) : published[i] = ScenarioBlocks[i]
    /\ rpc = "exit" => Len(published) = 5

\* C7's case: the copy is over, the reader having published its last block
C7_Witness ==
    BothExited /\ Len(published) = 5 /\ published[5].end

\* C8: slot data exclusivity.  read() into a block and write() out of the same
\* block never run at the same time; a block is filled only when fewer than
\* num_block published blocks are unreleased, and drained only once published.
C8_SlotExclusivity ==
    /\ ~(Filling /\ Draining /\ ridx = widx)
    /\ Filling => Len(published) - released < num_block
    /\ Draining => WriterChunk < Len(published)

\* the writer's block is published and not yet released
SlotCounted ==
    wpc # "w127" /\ WriterChunk < Len(published)

\* C9: slot metadata validity.  Whenever the writer is about to read its
\* block's data, size or end (lines 117, 119, 121, 127), the block is counted
\* in numToWrite: published and not yet released.  Stated for the runs in
\* which every wait returned on a signal, where it already fails.
C9_MetadataValid ==
    (spurious = 0 /\ wpc \in {"w117", "w117io", "w121", "w127"}) => SlotCounted

\* C10: degenerate capacity.  With num_block = 1 the transfers alternate: no
\* read() overlaps a write(), a fill begins only when every published block
\* has been released, a drain only once its block is published, and the copy
\* is byte-correct.
C10_StrictAlternation ==
    num_block = 1 =>
        /\ ~(Filling /\ Draining)
        /\ Filling => released = Len(published)
        /\ Draining => WriterChunk < Len(published)
        /\ (NoErrors /\ BothExited) => file_out = Source

\* C11: the progress counters never decrease: read and wrote stay within
\* 0..fsize in every reachable state, and no step lowers read, wrote, rwaits
\* or wwaits.
C11_ProgressCounters ==
    /\ [](read <= fsize /\ wrote <= fsize)
    /\ [][/\ read' >= read
          /\ wrote' >= wrote
          /\ rwaits' >= rwaits
          /\ wwaits' >= wwaits]_vars

\* the blocks whose end flag is set
EndSlots ==
    {i \in DOMAIN blocks : blocks[i].end}

\* C12: at most one block ever has end set, and it is the reader's current
\* block; once it is set the flag stays set, the reader moves to no other
\* block and stores no further data, and no other block's record changes;
\* a writer that has written a block whose end flag is set tests the flag
\* and exits, and after its exit it writes nothing and moves to no block.
C12_EndMarker ==
    /\ [](Cardinality(EndSlots) <= 1 /\ EndSlots \subseteq {ridx})
    /\ [][EndSlots # {} =>
            /\ blocks'[ridx].end
            /\ ridx' = ridx
            /\ buf' = buf
            /\ \A j \in DOMAIN blocks : j # ridx => blocks'[j] = blocks[j]]_vars
    /\ [][wpc = "w117io" /\ blocks[widx].end => wpc' \in {"w117io", "w121"}]_vars
    /\ [][wpc = "w121" /\ blocks[widx].end /\ wpc' # wpc => wpc' = "exit"]_vars
    /\ [][wpc = "exit" =>
            wpc' = "exit" /\ file_out' = file_out /\ widx' = widx]_vars

\* the reader marked a block after earlier ones were released, and the writer
\* exited on that block
C12_Witness ==
    /\ rpc = "exit" /\ wpc = "exit"
    /\ released > 0
    /\ widx \in EndSlots

\* line 119's test: write() returned something else than the length asked for
FellShort ==
    wret # wlen

\* C13: a write() that fails or comes back short on a block without the end
\* flag does not stop the writer: it goes on to lines 123-126, where it
\* decrements numToWrite and signals the reader; line 127 adds the block's
\* whole size, the length the write() was asked for, to wrote and line 128
\* advances idx; the copy still terminates and the reader does not stay
\* blocked at line 72 (unless the process is killed, a read() fails, or the
\* run leaves the part the model follows).  The step at line 127 is stated
\* for the runs in which every wait returned on a signal, where it already
\* fails.
C13_WriteFailureNonFatal ==
    /\ [][wpc = "w121" /\ FellShort /\ ~blocks[widx].end /\ wpc' # wpc =>
            wpc' = "w123"]_vars
    /\ [][wpc = "w124" /\ FellShort /\ wpc' # wpc =>
            /\ numToWrite' = UDec(numToWrite)
            /\ rpc = "r72" => rpc' = "r72s"]_vars
    /\ [][spurious = 0 /\ wpc = "w127" /\ FellShort /\ wpc' # wpc =>
            /\ wrote' = wrote + wlen
            /\ widx' = next_block_idx(widx)
            /\ wpc' = "w110"]_vars
    /\ (wpc = "w121" /\ FellShort) ~> (BothExited \/ crashed \/ rfailed \/ Capped)
    /\ (rpc = "r72" /\ wfails > 0) ~> (rpc # "r72" \/ crashed \/ Capped)

\* C14: whenever the reader is past lines 69-74 and about to call read(),
\* numToWrite < num_block; whenever the writer is past lines 110-115 and
\* about to call write(), numToWrite >= 1; whichever way the wait returned.
C14_AcquirePostcondition ==
    /\ rpc = "r76" => ULess(numToWrite, num_block)
    /\ wpc = "w117" => ~ULess(numToWrite, 1)

\* C15: from the return of a failed read() to the reader's exit, no reader
\* step changes numToWrite, read, wrote, rwaits or wwaits, publishes a block
\* or wakes the writer; the reader exits leaving its block with size 0 and
\* end set; that block is none of the published blocks still to be released
\* (it is not counted in numToWrite); and the writer is never at line 121
\* about to test the end flag of that block.
C15_ReadErrorStep ==
    /\ [][rfailed' /\ rpc' # rpc =>
            /\ numToWrite' = numToWrite
            /\ read' = read /\ wrote' = wrote
            /\ rwaits' = rwaits /\ wwaits' = wwaits
            /\ published' = published
            /\ wpc' = wpc]_vars
    /\ [](rfailed /\ rpc = "exit" => blocks[ridx] = [size |-> 0, end |-> TRUE])
    /\ [](rfailed =>
            \A c \in released..(Len(published) - 1) : c % num_block # ridx)
    /\ [](~(rfailed /\ wpc = "w121" /\ widx = ridx /\ blocks[widx].end))

\* C16: numToWrite, rwaits and wwaits change only in a step of the thread
\* that holds rw_mutex (lines 71, 93, 112, 124); a thread that is about to
\* test or change numToWrite holds it (lines 70, 93, 111, 124); a thread
\* enters pthread_cond_wait holding it, the wait gives it up, and the wait
\* returns with it held again; a thread holds it nowhere else, so not while
\* it is about to call, or is in, read() or write().
C16_LockDiscipline ==
    /\ [](rw_mutex = "reader" <=> rpc \in {"r70", "r74", "r93"})
    /\ [](rw_mutex = "writer" <=> wpc \in {"w111", "w115", "w124"})
    /\ [](rpc \in {"r76", "r76io"} => rw_mutex # "reader")
    /\ [](wpc \in {"w117", "w117io"} => rw_mutex # "writer")
    /\ [][/\ rwaits' # rwaits => rw_mutex = "reader" /\ rpc = "r70"
          /\ wwaits' # wwaits => rw_mutex = "writer" /\ wpc = "w111"
          /\ numToWrite' # numToWrite =>
                \/ rw_mutex = "reader" /\ rpc = "r93"
                \/ rw_mutex = "writer" /\ wpc = "w124"]_vars
    /\ [][/\ rpc # "r72" /\ rpc' = "r72" => rw_mutex = "reader" /\ rw_mutex' = "free"
          /\ wpc # "w113" /\ wpc' = "w113" => rw_mutex = "writer" /\ rw_mutex' = "free"
          /\ rpc = "r72s" /\ rpc' # rpc => rpc' = "r74" /\ rw_mutex' = "reader"
          /\ wpc = "w113s" /\ wpc' # wpc => wpc' = "w115" /\ rw_mutex' = "writer"]_vars

\* the reader holds the mutex to publish while the writer, which has waited
\* before, is inside write()
C16_Witness ==
    /\ rpc = "r93" /\ rw_mutex = "reader"
    /\ wpc = "w117io"
    /\ wwaits > 0

\* C17: the step in which the writer, having written a block, finds its end
\* flag set at line 121 takes the writer to its exit and leaves numToWrite
\* and wrote unchanged, releases nothing and wakes nobody; and in every
\* state in which reader and writer have both exited after a run without
\* read or write errors, numToWrite = 1.
C17_EndSlotConsumption ==
    /\ [][wpc = "w121" /\ blocks[widx].end /\ wpc' # wpc =>
            /\ wpc' = "exit"
            /\ numToWrite' = numToWrite
            /\ wrote' = wrote
            /\ released' = released
            /\ rpc' = rpc]_vars
    /\ [](NoErrors /\ BothExited => numToWrite = 1)

\* main has begun to tear down: statusWriter cancelled (line 225), the
\* condition variables and the mutex destroyed (230-232) or the buffers freed
\* (236-237)
TornDown ==
    spc = "cancelled" \/ rw_mutex = "destroyed" \/ freed

\* C18: statusWriter is cancelled, the mutex and condition variables are
\* destroyed and the buffers are freed only once readerThread and
\* writerThread have both exited: in no reachable state is one of them still
\* running or blocked while any of this has been done; main does it in the
\* order cancel, destroy, free; and an exited thread stays exited.
C18_LifecycleOrdering ==
    /\ [](TornDown => BothExited /\ JoinsReturned)
    /\ [](rw_mutex = "destroyed" => spc = "cancelled")
    /\ [](freed => rw_mutex = "destroyed")
    /\ [][/\ rpc = "exit" => rpc' = "exit"
          /\ wpc = "exit" => wpc' = "exit"]_vars

\* a copy that main has torn down completely
C18_Witness ==
    /\ freed /\ rw_mutex = "destroyed" /\ spc = "cancelled"
    /\ BothExited
    /\ mpc = "exit"

\* C19: in a run without a failed read(), the reader blocked at line 72 and
\* the writer blocked at line 113 never coincide; while the reader is
\* blocked the writer is neither blocked nor gone, and the step in which it
\* next releases a block wakes the reader; while the writer is blocked the
\* reader is neither blocked nor gone, and the step in which it next
\* publishes a block wakes the writer.
C19_NoMutualBlocking ==
    /\ [](~rfailed => ~(rpc = "r72" /\ wpc = "w113"))
    /\ [](~rfailed /\ rpc = "r72" => wpc \notin {"w113", "exit"})
    /\ [](~rfailed /\ wpc = "w113" => rpc \notin {"r72", "exit"})
    /\ [][/\ rpc = "r72" /\ released' > released => rpc' = "r72s"
          /\ wpc = "w113" /\ Len(published') > Len(published) =>
                wpc' = "w113s"]_vars

\* C20: in every reachable state wrote <= read, so whatever statusWriter
\* samples at line 58, the amount written is not larger than the amount
\* read.  Stated for the runs in which every wait returned on a signal and no
\* read() or write() failed, where it already fails.
C20_CounterOrdering ==
    (NoErrors /\ spurious = 0) => wrote <= read

====
